---- MODULE Spec2Model ----
(***************************************************************************)
(* State-machine model of the harlow surrogate models                      *)
(* (harlow/surrogate_model.py and harlow/surrogating/surrogate_model.py).  *)
(*                                                                         *)
(* These specifications share this module:                                 *)
(*   SpecVGP  one classical (scikit-learn) Gaussian process surrogate      *)
(*            with every kernel and target shape a caller may pass;        *)
(*   SpecVGP2 two classical surrogates and the class-level kernel object;  *)
(*   SpecGP   the gpytorch-backed Gaussian process surrogates;             *)
(*   SpecGPPosterior  the same surrogates called with well-formed          *)
(*            arguments, sample_posterior included;                        *)
(*   SpecNN   the neural-network surrogates and GaussianProcessTFP;        *)
(*   SpecFamilies  one surrogate of any family;                            *)
(*   SpecFunctions  the target functions of tests/integration_tests.       *)
(* Every action is one call of a public method by the caller; the call     *)
(* either returns or raises, and `last` records which.                     *)
(***************************************************************************)
EXTENDS Integers, Sequences, FiniteSets, TLC

VARIABLES
    kernelObj,  \* heap of sklearn kernel objects: object id -> kernel tree
    vgp,        \* the classical GP instances: instance -> attributes
    gp,         \* one gpytorch-backed GP surrogate instance
    nn,         \* one neural-network / TFP surrogate instance
    fn,         \* one evaluation of the test target functions
    last        \* the last call: who, which method, how it ended

vars == <<kernelObj, vgp, gp, nn, fn, last>>

(***************************************************************************)
(* Bounds of the model.                                                    *)
(***************************************************************************)
NumInst == 2     \* classical GP instances alive at once
MaxBatch == 2    \* rows of one batch handed to fit / update
MaxRows == 3     \* rows a stored dataset may grow to
MaxSqrt == 2     \* hyperparameter values are the squares 1 .. MaxSqrt^2

Inst == 1..NumInst

(***************************************************************************)
(* Common values.                                                          *)
(***************************************************************************)
None == [kind |-> "None"]
Unset == [kind |-> "unset"]          \* an attribute that was never assigned
Float(v) == [kind |-> "float", v |-> v]

Ok == "ok"
ValueError == "ValueError"
AttributeError == "AttributeError"
IndexError == "IndexError"
RuntimeError == "RuntimeError"
NameError == "NameError"
TypeError == "TypeError"

Bool(b) == [kind |-> "bool", v |-> b]

Call(who, op, err) == [who |-> who, op |-> op, err |-> err]
NoCall == Call(0, "none", Ok)

\* the integer square root of a perfect square (noise_level ** 0.5)
Sqrt(v) == CHOOSE r \in 0..v : r * r = v

HyperVals == { i * i : i \in 1..MaxSqrt }

(***************************************************************************)
(* scikit-learn kernels.                                                   *)
(***************************************************************************)
WhiteKernel(n) == [kind |-> "WhiteKernel", noise_level |-> n]
RBF(l) == [kind |-> "RBF", length_scale |-> l]
ConstantKernel(c) == [kind |-> "ConstantKernel", constant_value |-> c]
Sum(a, b) == [kind |-> "Sum", k1 |-> a, k2 |-> b]
Product(a, b) == [kind |-> "Product", k1 |-> a, k2 |-> b]

IsComposite(k) == k.kind \in {"Sum", "Product"}

\* kernel = 1.0 * RBF(1.0) + WhiteKernel(1.0, ...): the class attribute
DefaultKernel == Sum(Product(ConstantKernel(1), RBF(1)), WhiteKernel(1))

\* the object id of the class-level kernel object
ClassKernel == 0

\* kernels a caller may hand to the constructor instead of the default
CallerKernels ==
    { Sum(Product(ConstantKernel(1), RBF(1)), WhiteKernel(1)),   \* one white, at k2
      Sum(WhiteKernel(1), RBF(1)),                               \* one white, at k1
      Product(ConstantKernel(1), RBF(1)),                        \* no white
      Sum(WhiteKernel(1), WhiteKernel(1)) }                      \* two whites

\* vars(kernel).keys() restricted to the names matching ^k[0-9]
KAttrs(k) == IF IsComposite(k) THEN <<"k1", "k2">> ELSE <<>>

\* re.match("^WhiteKernel", str(k)): str of a Sum / Product starts with str(k1)
RECURSIVE StrStartsWithWhiteKernel(_)
StrStartsWithWhiteKernel(k) ==
    IF k.kind = "WhiteKernel" THEN TRUE
    ELSE IF IsComposite(k) THEN StrStartsWithWhiteKernel(k.k1)
    ELSE FALSE

\* clone(kernel) followed by the marginal-likelihood optimisation, whose
\* outcome is the value v for every hyperparameter
RECURSIVE Optimized(_, _)
Optimized(k, v) ==
    IF k.kind = "WhiteKernel" THEN WhiteKernel(v)
    ELSE IF k.kind = "RBF" THEN RBF(v)
    ELSE IF k.kind = "ConstantKernel" THEN ConstantKernel(v)
    ELSE [kind |-> k.kind, k1 |-> Optimized(k.k1, v), k2 |-> Optimized(k.k2, v)]

(***************************************************************************)
(* numpy arrays of the classical GP: nd dimensions, rows tagged by the     *)
(* batch they came from.  X is 2-D; y is 1-D (n,) or 2-D (n, 1).           *)
(***************************************************************************)
Array(nd, rows) == [kind |-> "ndarray", nd |-> nd, rows |-> rows]

\* new_y.flatten()
Flatten(a) == Array(1, a.rows)

\* np.concatenate([a, b]): arrays of different dimensionality are refused
Concatenate(a, b) ==
    IF a.nd # b.nd THEN [err |-> ValueError, val |-> None]
    ELSE [err |-> Ok, val |-> Array(a.nd, a.rows \o b.rows)]

\* a batch of n samples, the rows numbered t, t+1, ..: the inputs and the
\* targets (nd is y's ndim)
Rows(t, n) == [k \in 1..n |-> t + k - 1]
BatchX(t, n) == Array(2, Rows(t, n))
BatchY(t, n, nd) == Array(nd, Rows(t, n))

(***************************************************************************)
(* VanillaGaussianProcess / GaussianProcess (the classical GP).            *)
(***************************************************************************)
NoVGP ==
    [constructed |-> FALSE, kernel |-> ClassKernel, model |-> None,
     noise_std |-> None, X |-> Unset, y |-> Unset, fed |-> Unset]

\* GaussianProcessRegressor(kernel=self.kernel, ...): keeps a reference to the
\* kernel object it is given; kernel_ exists only once fitted
GaussianProcessRegressor(kid) ==
    [kind |-> "GaussianProcessRegressor", kernel |-> kid, kernel_ |-> Unset,
     X_train_ |-> Unset]

\* create_model
VGP_create_model_eff(s) == [s EXCEPT !.model = GaussianProcessRegressor(s.kernel)]

\* get_noise: the white-noise attribute is looked up on the CLASS kernel, the
\* noise level is read from the kernel of self.model
VGP_get_noise_res(s, heap) ==
    LET cls == heap[ClassKernel]
        white_kernel_attr ==
            SelectSeq(KAttrs(cls), LAMBDA a : StrStartsWithWhiteKernel(cls[a]))
        target == heap[s.model.kernel]
    IN  IF Len(white_kernel_attr) = 0 THEN [err |-> ValueError, val |-> None]
        ELSE IF Len(white_kernel_attr) > 1 THEN [err |-> ValueError, val |-> None]
        ELSE IF ~IsComposite(target) THEN [err |-> AttributeError, val |-> None]
        ELSE IF target[white_kernel_attr[1]].kind # "WhiteKernel"
             THEN [err |-> AttributeError, val |-> None]
        ELSE [err |-> Ok,
              val |-> Float(Sqrt(target[white_kernel_attr[1]].noise_level))]

\* fit(X, y): store, fit the regressor (optimiser outcome v), query the noise
VGP_fit_res(s, heap, X, y, v) ==
    LET s1 == [s EXCEPT !.X = X, !.y = y]
        s2 == [s1 EXCEPT !.model.kernel_ = Optimized(heap[s.model.kernel], v),
                         !.model.X_train_ = X]
        gn == VGP_get_noise_res(s2, heap)
    IN  IF gn.err = Ok
        THEN [err |-> Ok, inst |-> [s2 EXCEPT !.noise_std = gn.val]]
        ELSE [err |-> gn.err, inst |-> s2]

\* __init__(kernel=k): k = None stands for the default argument, which is the
\* class-level kernel object itself
VGP_init(i, k) ==
    /\ ~vgp[i].constructed
    /\ LET kid == IF k = None THEN ClassKernel ELSE i
           s0 == [NoVGP EXCEPT !.constructed = TRUE, !.kernel = kid]
       IN  /\ vgp' = [vgp EXCEPT ![i] = VGP_create_model_eff(s0)]
           /\ kernelObj' = IF k = None THEN kernelObj
                           ELSE [kernelObj EXCEPT ![i] = k]
    /\ last' = Call(i, "__init__", Ok)
    /\ UNCHANGED <<gp, nn, fn>>

\* create_model() called by the caller
VGP_create_model(i) ==
    /\ vgp[i].constructed
    /\ vgp' = [vgp EXCEPT ![i] = [VGP_create_model_eff(@) EXCEPT !.fed = Unset]]
    /\ last' = Call(i, "create_model", Ok)
    /\ UNCHANGED <<kernelObj, gp, nn, fn>>

\* fit(X, y) with a batch of n samples
VGP_fit(i, n, nd, v) ==
    /\ vgp[i].constructed
    /\ LET r == VGP_fit_res(vgp[i], kernelObj, BatchX(1, n), BatchY(1, n, nd), v)
       IN  /\ vgp' = [vgp EXCEPT ![i] = [r.inst EXCEPT !.fed = BatchX(1, n)]]
           /\ last' = Call(i, "fit", r.err)
    /\ UNCHANGED <<kernelObj, gp, nn, fn>>

\* get_noise() called by the caller
VGP_get_noise(i) ==
    /\ vgp[i].constructed
    /\ last' = Call(i, "get_noise", VGP_get_noise_res(vgp[i], kernelObj).err)
    /\ UNCHANGED <<kernelObj, vgp, gp, nn, fn>>

\* predict(X): the regressor predicts from the prior until it is fitted
VGP_predict(i) ==
    /\ vgp[i].constructed
    /\ last' = Call(i, "predict", IF vgp[i].model = None THEN AttributeError ELSE Ok)
    /\ UNCHANGED <<kernelObj, vgp, gp, nn, fn>>

\* update without the copy of the fitted hyperparameters onto the template
set_params_skipped(heap, kid, params) == heap

\* kernel.set_params(**params): the kernel object kid takes over every
\* hyperparameter (and sub-kernel) of params
set_params(heap, kid, params) == [heap EXCEPT ![kid] = params]

\* update(new_X, new_y) with a batch of n samples
VGP_update(i, n, nd, v) ==
    /\ vgp[i].constructed
    /\ LET s == vgp[i]
           t == IF s.fed # Unset THEN Len(s.fed.rows) + 1
                ELSE IF s.X # Unset THEN Len(s.X.rows) + 1 ELSE 1
           new_X == BatchX(t, n)
           new_y0 == BatchY(t, n, nd)
           noted == [s EXCEPT !.fed = IF @ = Unset THEN @ ELSE Array(2, @.rows \o Rows(t, n))]
       IN  IF s.X = Unset
           THEN \* self.X does not exist before the first fit
                /\ vgp' = vgp
                /\ kernelObj' = kernelObj
                /\ last' = Call(i, "update", AttributeError)
           ELSE /\ Len(s.X.rows) + n <= MaxRows
                /\ s.fed # Unset => Len(s.fed.rows) + n <= MaxRows
                /\ LET X == Concatenate(s.X, new_X)
                       new_y == IF new_y0.nd > s.y.nd THEN Flatten(new_y0) ELSE new_y0
                       y == Concatenate(s.y, new_y)
                   IN  IF y.err # Ok
                       THEN /\ vgp' = [vgp EXCEPT ![i] = noted]
                            /\ kernelObj' = kernelObj
                            /\ last' = Call(i, "update", y.err)
                       ELSE IF s.model.kernel_ = Unset
                       THEN \* self.model.kernel_ exists only on a fitted regressor
                            /\ vgp' = [vgp EXCEPT ![i] = noted]
                            /\ kernelObj' = kernelObj
                            /\ last' = Call(i, "update", AttributeError)
                       ELSE \* self.kernel.set_params(**self.model.kernel_.get_params())
                            LET heap == set_params(kernelObj, s.kernel, s.model.kernel_)
                                r == VGP_fit_res(VGP_create_model_eff(noted), heap,
                                                 X.val, y.val, v)
                            IN  /\ kernelObj' = heap
                                /\ vgp' = [vgp EXCEPT ![i] = r.inst]
                                /\ last' = Call(i, "update", r.err)
    /\ UNCHANGED <<gp, nn, fn>>

NoGP == [kind |-> "unused"]
NoNN == [kind |-> "unused"]
NoFn == [kind |-> "unused"]

InitVGP ==
    /\ kernelObj = [o \in 0..NumInst |-> IF o = ClassKernel THEN DefaultKernel ELSE None]
    /\ vgp = [i \in Inst |-> NoVGP]
    /\ gp = NoGP
    /\ nn = NoNN
    /\ fn = NoFn
    /\ last = NoCall

\* the calls a caller may make on instance i, with batches of 1..maxBatch rows
VGP_calls(i, kernels, maxBatch, nds) ==
    \/ \E k \in kernels : VGP_init(i, k)
    \/ VGP_create_model(i)
    \/ \E n \in 1..maxBatch, nd \in nds, v \in HyperVals : VGP_fit(i, n, nd, v)
    \/ VGP_get_noise(i)
    \/ VGP_predict(i)
    \/ \E n \in 1..maxBatch, nd \in nds, v \in HyperVals : VGP_update(i, n, nd, v)

\* one instance, any kernel
NextVGP == VGP_calls(1, CallerKernels \cup {None}, MaxBatch, 1..2)

SpecVGP == InitVGP /\ [][NextVGP]_vars

\* two instances side by side, built with the default kernel or with one of
\* their own, fed one row at a time
NextVGP2 ==
    \E i \in Inst : VGP_calls(i, {None, Sum(WhiteKernel(1), RBF(1))}, 1, {1})

SpecVGP2 == InitVGP /\ [][NextVGP2]_vars

(***************************************************************************)
(* torch tensors of the gpytorch-backed surrogates.  A tensor has nd        *)
(* dimensions and a list of rows; a row lists its elements.  A 1-D tensor  *)
(* of n elements is held as n rows of one element each.  The element of    *)
(* sample r in column j is Elem(r, j).                                      *)
(***************************************************************************)
MaxTasks == 2    \* tasks / component models, and columns of train_X
MaxIter == 2     \* largest training_max_iter

Tensor(nd, rows) == [kind |-> "tensor", nd |-> nd, rows |-> rows]
Elem(r, j) == 100 * j + r

\* t.shape[0]
Shape0(t) == Len(t.rows)

\* t.shape[1] of a 2-D tensor with at least one row
Shape1(t) == Len(t.rows[1])

\* the concatenation of a list of rows
RECURSIVE Join(_)
Join(rows) == IF rows = <<>> THEN <<>> ELSE Head(rows) \o Join(Tail(rows))

\* torch.atleast_2d(torch.tensor(t).float()): a 1-D tensor of n elements
\* becomes one row of n columns
AsTensor2D(t) == IF t.nd = 1 THEN Tensor(2, <<Join(t.rows)>>) ELSE t

\* torch.cat([a, b], dim=0): the sizes must agree in every other dimension
Cat(a, b) ==
    IF a.nd # b.nd THEN [err |-> RuntimeError, val |-> None]
    ELSE IF a.nd = 2 /\ Shape0(a) > 0 /\ Shape0(b) > 0 /\ Shape1(a) # Shape1(b)
         THEN [err |-> RuntimeError, val |-> None]
    ELSE [err |-> Ok, val |-> Tensor(a.nd, a.rows \o b.rows)]

\* train_X[:, cols] and train_y[:, i]
Columns(t, cols) == Tensor(2, [k \in 1..Shape0(t) |-> [c \in 1..Len(cols) |-> t.rows[k][cols[c]]]])
Column(t, i) == Tensor(1, [k \in 1..Shape0(t) |-> <<t.rows[k][i]>>])

\* the data a caller hands over: n input rows, m target rows of c columns
\* (nd = 1: a 1-D target of m elements); src tells the calls apart
\* (0 constructor, 1 fit, 2 update), first numbers the rows
SampleId(src, k) == 10 * src + k
XBatch(src, first, n) ==
    Tensor(2, [k \in 1..n |-> [j \in 1..MaxTasks |-> Elem(SampleId(src, first + k - 1), j)]])
YBatch(src, first, m, c, nd) ==
    IF nd = 1
    THEN Tensor(1, [k \in 1..m |-> <<Elem(SampleId(src, first + k - 1), 0)>>])
    ELSE Tensor(2, [k \in 1..m |-> [j \in 1..c |-> Elem(SampleId(src, first + k - 1), j)]])


(***************************************************************************)
(* The gpytorch-backed surrogates: GaussianProcessRegression,              *)
(* ModelListGaussianProcess, BatchIndependentGaussianProcess,              *)
(* MultiTaskGaussianProcess, DeepKernelMultiTaskGaussianProcess.           *)
(***************************************************************************)
GPR == "GaussianProcessRegression"
ModelList == "ModelListGaussianProcess"
BatchIndependent == "BatchIndependentGaussianProcess"
MultiTask == "MultiTaskGaussianProcess"
DeepKernel == "DeepKernelMultiTaskGaussianProcess"
MultiFamilies == {BatchIndependent, MultiTask, DeepKernel}
GPFamilies == {GPR, ModelList} \cup MultiFamilies

List(items) == [kind |-> "list", items |-> items]

WarnNoOptimizer == "No optimizer specified, using default."
WarnFitNoArgs == "Calling .fit() with no input argumentss will re-instantiate"

\* the identity of a newly created model / likelihood: one the instance
\* does not hold
FreshId(s) == IF s.model # None /\ s.model.id = 1 THEN 2 ELSE 1

\* len(self.model_names) / self.num_tasks
NumOutputs(s) == IF s.fam = ModelList THEN Len(s.model_names.items) ELSE s.num_tasks

\* a loop that collects the surrogates in the list object before it appends
\* the surrogate of the iteration
ModelList_loop_list_before_append(s, i, surs) ==
    [err |-> Ok,
     models |-> [k \in 1..(Len(s.model_names.items) - 1) |->
                    [inputs |-> s.list_params.items[k], targets |-> <<k>>,
                     likelihood |-> k]]]

\* the loop of ModelListGaussianProcess.create_model from model name i on:
\* surs is list_surrogates, which every iteration extends by the ExactGP
\* on the columns list_params[i] of train_X and column i of train_y with
\* likelihood i, and then collects in a new list object; models is the list
\* object the instance holds when the loop ends or raises
RECURSIVE ModelList_loop(_, _, _)
ModelList_loop(s, i, surs) ==
    IF i > Len(s.model_names.items)
    THEN [err |-> Ok, models |-> surs]
    ELSE IF i > Len(s.list_params.items)
    THEN [err |-> IndexError, models |-> surs]
    ELSE IF \E j \in DOMAIN s.list_params.items[i] :
                s.list_params.items[i][j] > Shape1(s.train_X)
    THEN [err |-> IndexError, models |-> surs]
    ELSE ModelList_loop(s, i + 1,
             Append(surs, [inputs |-> s.list_params.items[i], targets |-> <<i>>,
                           likelihood |-> i]))

\* the ExactGP models create_model builds: the columns of train_X and of
\* train_y each is built on, and the likelihood it is given
Components(s) ==
    IF s.fam = ModelList
    THEN ModelList_loop(s, 1, <<>>).models
    ELSE <<[inputs |-> [j \in 1..Shape1(s.train_X) |-> j],
            targets |-> IF s.train_y.nd = 1 THEN <<>>
                        ELSE [j \in 1..Shape1(s.train_y) |-> j],
            likelihood |-> 1]>>

\* a create_model that keeps the optimizer of the instance
reset_optimizer_skipped(s) == s

\* a create_model that resets only an optimizer the instance made itself
reset_optimizer_unless_supplied(s) ==
    IF s.optimizer # None /\ s.optimizer.kind = "caller" THEN s
    ELSE [s EXCEPT !.optimizer = None]

\* create_model, first statement: self.optimizer = None
reset_optimizer(s) == [s EXCEPT !.optimizer = None]

\* create_model without the check of the row counts
GP_create_model_no_row_check(s) ==
    LET s1 == [s EXCEPT !.optimizer = None]
        id == FreshId(s)
    IN  IF s.fam # GPR /\ s.train_y.nd < 2
        THEN [err |-> IndexError, inst |-> s1]
        ELSE IF s.fam # GPR /\ Shape1(s.train_y) # NumOutputs(s)
        THEN [err |-> ValueError, inst |-> s1]
        ELSE [err |-> Ok,
              inst |-> [s1 EXCEPT
                  !.likelihood = [kind |-> "likelihood", id |-> id, mode |-> "train",
                                  init |-> "default", steps |-> 0,
                                  n |-> Len(Components(s))],
                  !.model = [kind |-> "model", id |-> id, mode |-> "train",
                             init |-> "default", steps |-> 0,
                             models |-> Components(s)]]]

\* create_model without the check of the column count
GP_create_model_no_column_check(s) ==
    LET s1 == [s EXCEPT !.optimizer = None]
        id == FreshId(s)
    IN  IF Shape0(s.train_y) # Shape0(s.train_X)
        THEN [err |-> ValueError, inst |-> s1]
        ELSE IF s.fam # GPR /\ s.train_y.nd < 2
        THEN [err |-> IndexError, inst |-> s1]
        ELSE [err |-> Ok,
              inst |-> [s1 EXCEPT
                  !.likelihood = [kind |-> "likelihood", id |-> id, mode |-> "train",
                                  init |-> "default", steps |-> 0,
                                  n |-> Len(Components(s))],
                  !.model = [kind |-> "model", id |-> id, mode |-> "train",
                             init |-> "default", steps |-> 0,
                             models |-> Components(s)]]]

\* create_model: reset the optimizer, check the dimensions, build a new
\* likelihood and a new model with initial hyperparameters
GP_create_model_res(s) ==
    LET s1 == reset_optimizer(s)
        id == FreshId(s)
        \* the assembly of the models, run once
        loop == IF s.fam = ModelList THEN ModelList_loop(s, 1, <<>>)
                ELSE [err |-> Ok, models |-> Components(s)]
    IN  IF Shape0(s.train_y) # Shape0(s.train_X)
        THEN [err |-> ValueError, inst |-> s1]
        ELSE IF s.fam # GPR /\ s.train_y.nd < 2
        THEN [err |-> IndexError, inst |-> s1]
        ELSE IF s.fam # GPR /\ Shape1(s.train_y) # NumOutputs(s)
        THEN [err |-> ValueError, inst |-> s1]
        ELSE IF loop.err # Ok
        THEN [err |-> loop.err,
              \* the lists of the iterations that completed
              inst |-> IF loop.models = <<>> THEN s1
                       ELSE [s1 EXCEPT
                  !.likelihood = [kind |-> "likelihood", id |-> id, mode |-> "train",
                                  init |-> "default", steps |-> 0,
                                  n |-> Len(loop.models)],
                  !.model = [kind |-> "model", id |-> id, mode |-> "train",
                             init |-> "default", steps |-> 0,
                             models |-> loop.models]]]
        ELSE [err |-> Ok,
              inst |-> [s1 EXCEPT
                  !.likelihood = [kind |-> "likelihood", id |-> id, mode |-> "train",
                                  init |-> "default", steps |-> 0,
                                  n |-> Len(loop.models)],
                  !.model = [kind |-> "model", id |-> id, mode |-> "train",
                             init |-> "default", steps |-> 0,
                             models |-> loop.models]]]

\* `if self.min_loss_rate:`
Truthy(rate) == rate # None /\ rate.v # 0

\* a training loop that always leaves after its first step
StepsRun_single(i, ls, maxIter, rate) == 1

\* the number of optimizer steps the training loop runs on the losses ls
RECURSIVE StepsRun(_, _, _, _)
StepsRun(i, ls, maxIter, rate) ==
    IF i > maxIter THEN maxIter
    ELSE IF /\ Truthy(rate)
            /\ i > 1
            /\ (ls[i - 1] - ls[i]) - rate.v * ls[i] < 0
         THEN i
    ELSE StepsRun(i + 1, ls, maxIter, rate)

\* get_noise: sqrt of the noise the likelihood has after its training steps
GP_get_noise_val(lik) == [kind |-> "noise", init |-> lik.init, steps |-> lik.steps]

\* what fit stores for an argument it is given
GP_stored(s, t) == IF s.fam = GPR THEN t ELSE AsTensor2D(t)

\* fit(train_X, train_y) with the losses ls the training steps observe
GP_fit_res(s, X, y, ls) ==
    LET noargs == X = None \/ y = None
        s0 == IF noargs
              THEN [s EXCEPT !.warned = @ \cup {WarnFitNoArgs}]
              ELSE [s EXCEPT !.train_X = GP_stored(s, X), !.train_y = GP_stored(s, y)]
        cm == GP_create_model_res(s0)
    IN  IF cm.err # Ok THEN cm
        ELSE LET k == StepsRun(1, ls, s.training_max_iter, s.min_loss_rate)
                 m == cm.inst
                 opt == IF m.optimizer = None
                        THEN [kind |-> "Adam", params |-> m.model.id, steps |-> k]
                        ELSE [m.optimizer EXCEPT !.steps = @ + k]
                 lik == [m.likelihood EXCEPT !.mode = "train", !.steps = k]
             IN  [err |-> Ok,
                  inst |-> [m EXCEPT
                      !.model = [@ EXCEPT !.mode = "train", !.steps = k],
                      !.likelihood = lik,
                      !.optimizer = opt,
                      !.vec_loss = List(SubSeq(ls, 1, k)),
                      !.noise_std = GP_get_noise_val(lik)]]

NewGP ==
    [phase |-> "new", fam |-> GPR, model_names |-> None, list_params |-> None,
     num_tasks |-> 0, training_max_iter |-> 1, min_loss_rate |-> None,
     train_X |-> None, train_y |-> None, optimizer |-> None, model |-> None,
     likelihood |-> None, vec_loss |-> Unset, noise_std |-> None,
     prediction |-> Unset, warned |-> {}]

\* a constructor that treats a missing optimizer as a configuration error
GP_init_optimizer_required(s0) ==
    IF s0.fam = ModelList /\ s0.model_names = None
    THEN [err |-> ValueError, inst |-> s0]
    ELSE IF s0.fam = ModelList /\ s0.list_params = None
    THEN [err |-> ValueError, inst |-> s0]
    ELSE IF s0.optimizer = None
    THEN [err |-> ValueError, inst |-> s0]
    ELSE GP_create_model_res([s0 EXCEPT !.warned = {}])

\* the constructor after it has stored its arguments: the configuration
\* checks of ModelListGaussianProcess, the optimizer warning, create_model
GP_init_res(s0) ==
    IF s0.fam = ModelList /\ s0.model_names = None
    THEN [err |-> ValueError, inst |-> s0]
    ELSE IF s0.fam = ModelList /\ s0.list_params = None
    THEN [err |-> ValueError, inst |-> s0]
    ELSE GP_create_model_res(
             [s0 EXCEPT !.warned = IF s0.optimizer = None THEN {WarnNoOptimizer} ELSE {}])

\* __init__(train_X, train_y, ...): names and params are None or lists of
\* ntasks entries, optimizer is None or an optimizer of the caller
GP_init(fam, n, ys, ntasks, names, params, optimizer, maxIter, rate) ==
    /\ gp.phase = "new"
    /\ LET s0 == [NewGP EXCEPT
                    !.fam = fam,
                    !.model_names = names,
                    !.list_params = params,
                    !.num_tasks = IF fam \in MultiFamilies THEN ntasks ELSE 0,
                    !.training_max_iter = maxIter,
                    !.min_loss_rate = rate,
                    !.train_X = XBatch(0, 1, n),
                    !.train_y = YBatch(0, 1, ys[1], ys[2], ys[3]),
                    !.optimizer = optimizer,
                    !.prediction = IF fam = ModelList THEN None ELSE Unset]
           r == GP_init_res(s0)
       IN  /\ gp' = [r.inst EXCEPT !.phase = IF r.err = Ok THEN "live" ELSE "dead"]
           /\ last' = Call(0, "__init__", r.err)
    /\ UNCHANGED <<kernelObj, vgp, nn, fn>>

\* create_model() called by the caller
GP_create_model ==
    /\ gp.phase = "live"
    /\ LET cm == GP_create_model_res([gp EXCEPT !.warned = {}])
       IN  /\ gp' = cm.inst
           /\ last' = Call(0, "create_model", cm.err)
    /\ UNCHANGED <<kernelObj, vgp, nn, fn>>

\* fit(train_X, train_y): either argument may be omitted (None)
GP_fit(X, y, ls) ==
    /\ gp.phase = "live"
    /\ LET r == GP_fit_res([gp EXCEPT !.warned = {}],
                           X, y, ls)
       IN  /\ gp' = r.inst
           /\ last' = Call(0, "fit", r.err)
    /\ UNCHANGED <<kernelObj, vgp, nn, fn>>

\* an update that puts the new rows in front of the stored ones
GP_update_prepend(n, ys, ls) ==
    /\ gp.phase = "live"
    /\ Shape0(gp.train_X) + n <= MaxRows
    /\ Shape0(gp.train_y) + ys[1] <= MaxRows
    /\ LET new_X == XBatch(2, Shape0(gp.train_X) + 1, n)
           new_y == YBatch(2, Shape0(gp.train_y) + 1, ys[1], ys[2], ys[3])
           s0 == [gp EXCEPT !.warned = {}]
           full_X == Cat(new_X, gp.train_X)
           full_y == Cat(new_y, gp.train_y)
       IN  IF full_X.err # Ok \/ full_y.err # Ok
           THEN /\ gp' = s0
                /\ last' = Call(0, "update", RuntimeError)
           ELSE LET r == GP_fit_res([s0 EXCEPT !.optimizer = None],
                                    full_X.val, full_y.val, ls)
                IN  /\ gp' = r.inst
                    /\ last' = Call(0, "update", r.err)
    /\ UNCHANGED <<kernelObj, vgp, nn, fn>>

\* update(new_X, new_y)
GP_update(n, ys, ls) ==
    /\ gp.phase = "live"
    /\ Shape0(gp.train_X) + n <= MaxRows
    /\ Shape0(gp.train_y) + ys[1] <= MaxRows
    /\ LET new_X == XBatch(2, Shape0(gp.train_X) + 1, n)
           new_y == YBatch(2, Shape0(gp.train_y) + 1, ys[1], ys[2], ys[3])
           s0 == [gp EXCEPT !.warned = {}]
           full_X == Cat(gp.train_X, new_X)
           full_y == Cat(gp.train_y, new_y)
       IN  IF full_X.err # Ok \/ full_y.err # Ok
           THEN /\ gp' = s0
                /\ last' = Call(0, "update", RuntimeError)
           ELSE LET r == GP_fit_res([s0 EXCEPT !.optimizer = None],
                                    full_X.val, full_y.val, ls)
                IN  /\ gp' = r.inst
                    /\ last' = Call(0, "update", r.err)
    /\ UNCHANGED <<kernelObj, vgp, nn, fn>>

\* self.likelihood(self.model(X_pred)): the posterior of the model as
\* trained so far
Posterior(s) ==
    [kind |-> "posterior", steps |-> s.model.steps]

\* a predict that leaves the modes of model and likelihood as they are
GP_predict_without_eval ==
    /\ gp.phase = "live"
    /\ gp' = [gp EXCEPT !.warned = {}, !.prediction = Posterior(gp)]
    /\ last' = Call(0, "predict", Ok)
    /\ UNCHANGED <<kernelObj, vgp, nn, fn>>

\* predict(X_pred): eval mode; self.prediction is the posterior of the
\* model as trained so far
GP_predict ==
    /\ gp.phase = "live"
    /\ gp' = [gp EXCEPT
                !.warned = {},
                !.model = [@ EXCEPT !.mode = "eval"],
                !.likelihood = [@ EXCEPT !.mode = "eval"],
                !.prediction = Posterior(gp)]
    /\ last' = Call(0, "predict", Ok)
    /\ UNCHANGED <<kernelObj, vgp, nn, fn>>

\* a sample_posterior that samples the posterior of the model as it is now
GP_sample_posterior_ret_current(s) == [kind |-> "samples", of |-> Posterior(s)]

\* what sample_posterior returns: self.prediction.n_sample(n_samples), the
\* samples of the stored posterior (one list entry per model for ModelList)
GP_sample_posterior_ret(s) == [kind |-> "samples", of |-> s.prediction]

\* sample_posterior(n_samples): eval mode, then the stored posterior is
\* sampled; n_sample is looked up on the library's distribution object,
\* which may not provide it
GP_sample_posterior(has_n_sample) ==
    /\ gp.phase = "live"
    /\ gp' = [gp EXCEPT
                !.warned = {},
                !.model = [@ EXCEPT !.mode = "eval"],
                !.likelihood = [@ EXCEPT !.mode = "eval"]]
    /\ last' = Call(0, "sample_posterior",
                    IF gp.prediction = Unset THEN AttributeError
                    ELSE IF gp.prediction = None THEN TypeError
                    ELSE IF ~has_n_sample THEN AttributeError
                    ELSE Ok)
    /\ UNCHANGED <<kernelObj, vgp, nn, fn>>

\* the target shapes a caller may choose, <<rows, columns, ndim>>: 1-D
\* targets for every family, 2-D targets for the multi-output families
YShapes(fam) ==
    { <<m, 0, 1>> : m \in 1..MaxBatch }
    \cup (IF fam = GPR THEN {}
          ELSE { <<m, c, 2>> : m \in 1..MaxBatch, c \in 1..MaxTasks })

\* the arguments fit may be given: a tensor or None
FitXArgs == {None} \cup { XBatch(1, 1, n) : n \in 1..MaxBatch }
FitYArgs(fam) == {None} \cup { YBatch(1, 1, ys[1], ys[2], ys[3]) : ys \in YShapes(fam) }

\* the lists of k names / parameter index lists
NameList(k) == List([i \in 1..k |-> i])
ParamList(k) == List([i \in 1..k |-> <<i>>])

\* the losses a training step may observe
LossVals == {0, 1}
Losses(maxIter, lossVals) == [1..maxIter -> lossVals]

\* the calls a caller may make: ntasks output counts, losses from lossVals
GP_calls(fams, tasks, iters, rates, lossVals) ==
    \/ \E fam \in fams : \E n \in 1..MaxBatch, ys \in YShapes(fam),
          optimizer \in {None, [kind |-> "caller", steps |-> 0]},
          maxIter \in iters, rate \in rates :
            \/ /\ fam = GPR
               /\ GP_init(fam, n, ys, 0, None, None, optimizer, maxIter, rate)
            \/ /\ fam = ModelList
               /\ \E k \in tasks, names \in BOOLEAN, params \in BOOLEAN :
                    GP_init(fam, n, ys, 0,
                            IF names THEN NameList(k) ELSE None,
                            IF params THEN ParamList(k) ELSE None,
                            optimizer, maxIter, rate)
            \/ /\ fam \in MultiFamilies
               /\ \E k \in tasks :
                    GP_init(fam, n, ys, k, None, None, optimizer, maxIter, rate)
    \/ GP_create_model
    \/ \E X \in FitXArgs, y \in FitYArgs(gp.fam),
          ls \in Losses(gp.training_max_iter, lossVals) :
            GP_fit(X, y, ls)
    \/ \E n \in 1..MaxBatch, ys \in YShapes(gp.fam),
          ls \in Losses(gp.training_max_iter, lossVals) :
            GP_update(n, ys, ls)
    \/ GP_predict

InitGP ==
    /\ kernelObj = [o \in 0..NumInst |-> None]
    /\ vgp = [i \in Inst |-> NoVGP]
    /\ gp = NewGP
    /\ nn = NoNN
    /\ fn = NoFn
    /\ last = NoCall

NextGP == GP_calls(GPFamilies, {MaxTasks}, {MaxIter}, {None}, {1})

SpecGP == InitGP /\ [][NextGP]_vars

\* the shape <<rows, columns, ndim>> of m targets that fam accepts
TargetShape(fam, m) == IF fam = GPR THEN <<m, 0, 1>> ELSE <<m, MaxTasks, 2>>

\* the calls of a caller whose arguments are well-formed, sample_posterior
\* among them
NextGPPosterior ==
    \/ \E fam \in GPFamilies, n \in 1..MaxBatch,
          optimizer \in {None, [kind |-> "caller", steps |-> 0]} :
          GP_init(fam, n, TargetShape(fam, n), MaxTasks,
                  IF fam = ModelList THEN NameList(MaxTasks) ELSE None,
                  IF fam = ModelList THEN ParamList(MaxTasks) ELSE None,
                  optimizer, MaxIter, None)
    \/ GP_create_model
    \/ \E n \in 1..MaxBatch, ls \in Losses(gp.training_max_iter, LossVals) :
          LET ys == TargetShape(gp.fam, n)
          IN  GP_fit(XBatch(1, 1, n), YBatch(1, 1, ys[1], ys[2], ys[3]), ls)
    \/ \E n \in 1..MaxBatch, ls \in Losses(gp.training_max_iter, LossVals) :
          GP_update(n, TargetShape(gp.fam, n), ls)
    \/ GP_predict
    \/ \E has_n_sample \in BOOLEAN : GP_sample_posterior(has_n_sample)

SpecGPPosterior == InitGP /\ [][NextGPPosterior]_vars

\* the training loops: instances of one training row with any iteration
\* limit up to MaxIter + 1 and min_loss_rate None, 0 or 1, fitted and
\* updated with one well-formed row at a time under any losses
TrainIters == 1..(MaxIter + 1)
TrainRates == {None, Float(0), Float(1)}

TrainFit(ls) ==
    LET ys == TargetShape(gp.fam, 1)
    IN  GP_fit(XBatch(1, 1, 1), YBatch(1, 1, ys[1], ys[2], ys[3]), ls)

TrainUpdate(ls) == GP_update(1, TargetShape(gp.fam, 1), ls)

NextGPTrain ==
    \/ \E fam \in GPFamilies, maxIter \in TrainIters, rate \in TrainRates :
          GP_init(fam, 1, TargetShape(fam, 1), MaxTasks,
                  IF fam = ModelList THEN NameList(MaxTasks) ELSE None,
                  IF fam = ModelList THEN ParamList(MaxTasks) ELSE None,
                  None, maxIter, rate)
    \/ \E ls \in Losses(gp.training_max_iter, LossVals) : TrainFit(ls)
    \/ \E ls \in Losses(gp.training_max_iter, LossVals) : TrainUpdate(ls)

SpecGPTrain == InitGP /\ [][NextGPTrain]_vars

\* well-formed instances of one training row that are fitted and updated
\* with data of any shape, or fitted without arguments
NextGPRejected ==
    \/ \E fam \in GPFamilies :
          GP_init(fam, 1, TargetShape(fam, 1), MaxTasks,
                  IF fam = ModelList THEN NameList(MaxTasks) ELSE None,
                  IF fam = ModelList THEN ParamList(MaxTasks) ELSE None,
                  None, 1, None)
    \/ \E X \in FitXArgs, y \in FitYArgs(gp.fam) : GP_fit(X, y, <<1>>)
    \/ \E n \in 1..MaxBatch, ys \in YShapes(gp.fam) : GP_update(n, ys, <<1>>)

SpecGPRejected == InitGP /\ [][NextGPRejected]_vars

\* ModelListGaussianProcess with any number of model names, any list of
\* parameter index lists (shorter or longer than the names, with column
\* indices inside and outside train_X) and any number of target columns
ColumnLists == { <<1>>, <<2>>, <<1, 2>>, <<MaxTasks + 1>> }
ParamLists == UNION { { List(p) : p \in [1..k -> ColumnLists] } : k \in 1..MaxTasks }

NextModelList ==
    \/ \E n \in 1..MaxBatch, k \in 1..MaxTasks, c \in 1..MaxTasks,
          params \in ParamLists :
          GP_init(ModelList, n, <<n, c, 2>>, 0, NameList(k), params, None, 1, None)
    \/ GP_create_model
    \/ \E c \in 1..MaxTasks :
          GP_fit(XBatch(1, 1, 1), YBatch(1, 1, 1, c, 2), <<1>>)
    \/ \E c \in 1..MaxTasks :
          GP_update(1, <<1, c, 2>>, <<1>>)

SpecModelList == InitGP /\ [][NextModelList]_vars

(***************************************************************************)
(* The Keras / TFP surrogates of both generations: NN, Prob_NN,            *)
(* Bayesian_NN and GaussianProcessTFP of harlow.surrogate_model,           *)
(* Vanilla_NN, Vanilla_BayesianNN and GaussianProcessTFP of                *)
(* harlow.surrogating.surrogate_model.                                     *)
(***************************************************************************)
MaxFits == 2     \* trainings one Keras model may go through

learning_rate_initial == 10     \* 0.01, in thousandths
learning_rate_update == 1       \* 0.001, in thousandths

LegacyTFP == "harlow.surrogate_model.GaussianProcessTFP"
NewTFP == "harlow.surrogating.surrogate_model.GaussianProcessTFP"
LegacyNNFamilies == {"NN", "Prob_NN", "Bayesian_NN"}
NewNNFamilies == {"Vanilla_NN", "Vanilla_BayesianNN"}
NNFamilies == LegacyNNFamilies \cup NewNNFamilies
BayesianFamilies == {"Bayesian_NN", "Vanilla_BayesianNN"}
TFPFamilies == {LegacyTFP, NewTFP}
KerasFamilies == NNFamilies \cup TFPFamilies

\* a compiled Keras model: the learning rate and loss it was last compiled
\* with, the number of rows its KL terms are divided by (None: no KL term),
\* the number of trainings it went through on its weights, the data of the
\* last of them
Model(lr, loss, rows) ==
    [kind |-> "Model", lr |-> lr, loss |-> loss, rows |-> rows, fits |-> 0,
     trained_on |-> Unset]

\* the loss create_model compiles the model with
CreateLoss(fam) == IF fam \in {"NN", "Vanilla_NN"} THEN "mse" ELSE "NLL"

\* an update that compiles with the loss of create_model
UpdateLoss_as_created(s) == CreateLoss(s.fam)

\* the loss update compiles the model with
UpdateLoss(s) ==
    IF s.fam = "NN" THEN "root_mean_squared_error"
    ELSE IF s.fam = "Vanilla_NN" THEN s.loss
    ELSE "NLL"

NewNN ==
    [phase |-> "new", fam |-> "NN", model |-> None, loss |-> "mse",
     X |-> Unset, preds |-> Unset, gp_joint_model |-> Unset,
     variables |-> Unset, kernel |-> Unset,
     is_probabilistic |-> Unset,
     ret |-> None, byCaller |-> FALSE, proto |-> 0]

\* the attributes of the instance (ret, byCaller and proto only record the
\* history of the calls)
NNAttrs(s) ==
    [model |-> s.model, loss |-> s.loss, X |-> s.X, preds |-> s.preds,
     gp_joint_model |-> s.gp_joint_model, variables |-> s.variables,
     kernel |-> s.kernel, is_probabilistic |-> s.is_probabilistic]

\* create_model; x is the array Bayesian_NN.create_model is given, eager
\* tells whether the KL divisor is read while the layers are built
NN_create_model_res(s, x, eager) ==
    IF s.fam \in TFPFamilies
    THEN [err |-> Ok, inst |-> [s EXCEPT !.gp_joint_model = [kind |-> "JointDistributionNamed"]]]
    ELSE IF s.fam = "Bayesian_NN"
    THEN [err |-> Ok,
          inst |-> [s EXCEPT !.model = Model(learning_rate_initial, "NLL",
                                             Float(Len(x.rows)))]]
    ELSE IF s.fam = "Vanilla_BayesianNN"
    THEN IF s.X = Unset
         THEN IF eager THEN [err |-> AttributeError, inst |-> s]
              ELSE [err |-> Ok,
                    inst |-> [s EXCEPT !.model = Model(learning_rate_initial, "NLL", Unset)]]
         ELSE [err |-> Ok,
               inst |-> [s EXCEPT !.model = Model(learning_rate_initial, "NLL",
                                                  Float(Len(s.X.rows)))]]
    ELSE [err |-> Ok,
          inst |-> [s EXCEPT !.model = Model(learning_rate_initial, CreateLoss(s.fam), None)]]

\* model.fit(X, y) of Keras: one more training of the current weights, on
\* X; a KL divisor not read yet is read from self.X now
KerasFit_res(s, X) ==
    IF s.model.rows = Unset /\ s.X = Unset
    THEN [err |-> AttributeError, inst |-> s]
    ELSE [err |-> Ok,
          inst |-> [s EXCEPT !.model.fits = @ + 1,
                             !.model.trained_on = X,
                             !.model.rows = IF @ = Unset THEN Float(Len(s.X.rows))
                                            ELSE @]]

initial_value == 1     \* TransformedVariable(initial_value=1.0, ...)

\* the three hyperparameter variables (amplitude, length_scale,
\* observation_noise_variance): the value they were created with and the
\* value they hold now
TransformedVariables(init, value) ==
    [kind |-> "TransformedVariable", initial_value |-> init, value |-> value]

\* optimize_parameters of GaussianProcessTFP: new variables at 1.0, then
\* train_iterations steps on the joint model that move them to v, then the
\* kernel over them
NN_optimize_parameters_res(s, v) ==
    LET s1 == [s EXCEPT !.variables = TransformedVariables(initial_value, initial_value)]
    IN  IF s.gp_joint_model = Unset
        THEN [err |-> AttributeError, inst |-> s1]
        ELSE [err |-> Ok,
              inst |-> [s1 EXCEPT !.variables = TransformedVariables(initial_value, v),
                                  !.kernel = [kind |-> "ExponentiatedQuadratic",
                                              amplitude |-> v, length_scale |-> v]]]

\* __init__: the legacy classes build their model, the new ones do not;
\* Vanilla_NN stores the loss it is given
NN_init_loss(fam, n, loss) ==
    /\ nn.phase = "new"
    /\ LET s0 == [NewNN EXCEPT !.phase = "live", !.fam = fam, !.proto = 1,
                               !.loss = IF fam = "Vanilla_NN" THEN loss ELSE @,
                               \* Bayesian_NN.__init__: self.is_probabilistic = True
                               !.is_probabilistic = IF fam = "Bayesian_NN"
                                                    THEN Bool(TRUE) ELSE @]
           r == IF fam \in LegacyNNFamilies \cup {LegacyTFP}
                THEN NN_create_model_res(s0, BatchX(1, n), TRUE)
                ELSE [err |-> Ok, inst |-> s0]
       IN  /\ nn' = r.inst
           /\ last' = Call(0, "__init__", r.err)
    /\ UNCHANGED <<kernelObj, vgp, gp, fn>>

\* __init__ with the default loss="mse"
NN_init(fam, n) == NN_init_loss(fam, n, "mse")

\* create_model called by the caller
NN_create_model(n, eager) ==
    /\ nn.phase = "live"
    /\ LET r == NN_create_model_res([nn EXCEPT !.ret = None, !.byCaller = TRUE,
                                               !.proto = 0],
                                    BatchX(1, n), eager)
       IN  /\ nn' = r.inst
           /\ last' = Call(0, "create_model", r.err)
    /\ UNCHANGED <<kernelObj, vgp, gp, fn>>

\* fit(X, y) with n rows; v is the optimum the training reaches
NN_fit(n, v) ==
    /\ nn.phase = "live"
    /\ nn.model # None => nn.model.fits < MaxFits
    /\ LET s0 == [nn EXCEPT !.ret = None, !.proto = IF @ = 1 THEN 2 ELSE 0]
           s1 == [s0 EXCEPT !.X = BatchX(1, n)]
       IN  IF nn.fam \in TFPFamilies
           THEN LET r == NN_optimize_parameters_res(s1, v)
                IN  /\ nn' = r.inst
                    /\ last' = Call(0, "fit", r.err)
           ELSE LET s2 == IF nn.fam \in BayesianFamilies THEN s1 ELSE s0
                IN  IF nn.model = None
                    THEN /\ nn' = s2
                         /\ last' = Call(0, "fit", AttributeError)
                    ELSE /\ nn' = KerasFit_res(s2, BatchX(1, n)).inst
                         /\ last' = Call(0, "fit", KerasFit_res(s2, BatchX(1, n)).err)
    /\ UNCHANGED <<kernelObj, vgp, gp, fn>>

\* the rows an instance has been given so far: those it stores, else those
\* of its model's last training
NN_seen(s) ==
    IF s.X # Unset THEN s.X.rows
    ELSE IF s.model # None /\ s.model.trained_on # Unset THEN s.model.trained_on.rows
    ELSE <<>>

\* an update that trains on the known rows followed by the new ones
NN_update_data_accumulated(s, X_new) == Array(2, NN_seen(s) \o X_new.rows)

\* the data update of the Keras classes hands to model.fit
NN_update_data(s, X_new) == X_new

\* update(X_new, y_new) with n rows; v is the optimum the training reaches
NN_update(n, v) ==
    /\ nn.phase = "live"
    /\ nn.model # None => nn.model.fits < MaxFits
    /\ nn.X # Unset => Len(nn.X.rows) + n <= MaxRows
    /\ LET s0 == [nn EXCEPT !.ret = None, !.proto = IF @ = 3 THEN 4 ELSE 0]
       IN  IF nn.fam \in TFPFamilies
           THEN IF nn.X = Unset
                THEN /\ nn' = s0
                     /\ last' = Call(0, "update", AttributeError)
                ELSE LET r == NN_optimize_parameters_res(
                                  [s0 EXCEPT !.X = Concatenate(@, BatchX(Len(@.rows) + 1, n)).val],
                                  v)
                     IN  /\ nn' = r.inst
                         /\ last' = Call(0, "update", r.err)
           ELSE IF nn.model = None
           THEN /\ nn' = s0
                /\ last' = Call(0, "update", AttributeError)
           ELSE LET X_new == BatchX(Len(NN_seen(nn)) + 1, n)
                    r == KerasFit_res([s0 EXCEPT !.model.lr = learning_rate_update,
                                                 !.model.loss = UpdateLoss(nn)],
                                      NN_update_data(s0, X_new))
                IN  /\ nn' = r.inst
                    /\ last' = Call(0, "update", r.err)
    /\ UNCHANGED <<kernelObj, vgp, gp, fn>>

\* the classes whose predict takes return_samples
SamplingFamilies == {"Prob_NN", "Bayesian_NN"} \cup TFPFamilies

\* a predict of Prob_NN / Bayesian_NN that hands the samples out when asked
NN_predict_ret_with_samples(return_samples) ==
    IF return_samples THEN [kind |-> "mean, stdv, preds"] ELSE [kind |-> "mean, stdv"]

\* what predict of Prob_NN / Bayesian_NN returns: the expression statement
\* under "if return_samples:" has no effect
NN_predict_ret(return_samples) == [kind |-> "mean, stdv"]

\* what predict of GaussianProcessTFP returns (return_std left False)
TFP_predict_ret(return_samples) ==
    IF return_samples THEN [kind |-> "mean, samples"] ELSE [kind |-> "mean"]

\* a predict that uses self.model without looking at it first
NN_predict_unguarded(return_samples) ==
    /\ nn.phase = "live"
    /\ return_samples => nn.fam \in SamplingFamilies
    /\ LET s0 == [nn EXCEPT !.ret = None,
                            !.proto = IF @ = 2 THEN 3 ELSE IF @ = 4 THEN 5 ELSE 0]
       IN  IF nn.fam \in TFPFamilies
           THEN IF nn.kernel = Unset
                THEN /\ nn' = s0
                     /\ last' = Call(0, "predict", AttributeError)
                ELSE /\ nn' = [s0 EXCEPT !.ret = TFP_predict_ret(return_samples)]
                     /\ last' = Call(0, "predict", Ok)
           ELSE IF nn.model = None
           THEN /\ nn' = s0
                /\ last' = Call(0, "predict", AttributeError)
           ELSE /\ nn' = [s0 EXCEPT !.ret = [kind |-> "preds"]]
                /\ last' = Call(0, "predict", Ok)
    /\ UNCHANGED <<kernelObj, vgp, gp, fn>>

\* predict(X, return_samples=...): the Keras classes answer only if
\* self.model is set
NN_predict(return_samples) ==
    /\ nn.phase = "live"
    /\ return_samples => nn.fam \in SamplingFamilies
    /\ LET s0 == [nn EXCEPT !.ret = None,
                            !.proto = IF @ = 2 THEN 3 ELSE IF @ = 4 THEN 5 ELSE 0]
       IN  IF nn.fam \in TFPFamilies
           THEN IF nn.kernel = Unset
                THEN /\ nn' = s0
                     /\ last' = Call(0, "predict", AttributeError)
                ELSE /\ nn' = [s0 EXCEPT !.ret = TFP_predict_ret(return_samples)]
                     /\ last' = Call(0, "predict", Ok)
           ELSE IF nn.model = None
           THEN /\ nn' = s0
                /\ last' = Call(0, "predict", Ok)
           ELSE IF nn.fam \in {"NN", "Vanilla_NN"}
           THEN /\ nn' = [s0 EXCEPT !.ret = [kind |-> "preds"],
                                    !.preds = IF nn.fam = "Vanilla_NN"
                                              THEN [kind |-> "preds"] ELSE @]
                /\ last' = Call(0, "predict", Ok)
           ELSE /\ nn' = [s0 EXCEPT !.ret = IF nn.fam = "Vanilla_BayesianNN"
                                           THEN [kind |-> "mean, stdv"]
                                           ELSE NN_predict_ret(return_samples),
                                    !.preds = IF nn.fam = "Vanilla_BayesianNN"
                                              THEN [kind |-> "preds"] ELSE @]
                /\ last' = Call(0, "predict", Ok)
    /\ UNCHANGED <<kernelObj, vgp, gp, fn>>

\* get_fmin of the legacy NN classes: self.model.predict(self.X).min()
NN_get_fmin ==
    /\ nn.phase = "live"
    /\ nn.fam \in LegacyNNFamilies
    /\ LET s0 == [nn EXCEPT !.ret = None, !.proto = 0]
       IN  IF nn.model = None \/ nn.X = Unset
           THEN /\ nn' = s0
                /\ last' = Call(0, "get_fmin", AttributeError)
           ELSE /\ nn' = [s0 EXCEPT !.ret = [kind |-> "min of predictions",
                                             over |-> nn.X.rows]]
                /\ last' = Call(0, "get_fmin", Ok)
    /\ UNCHANGED <<kernelObj, vgp, gp, fn>>

InitNN ==
    /\ kernelObj = [o \in 0..NumInst |-> None]
    /\ vgp = [i \in Inst |-> NoVGP]
    /\ gp = NoGP
    /\ nn = NewNN
    /\ fn = NoFn
    /\ last = NoCall

NextNN ==
    \/ \E fam \in KerasFamilies, n \in 1..MaxBatch : NN_init(fam, n)
    \/ \E n \in 1..MaxBatch, eager \in BOOLEAN : NN_create_model(n, eager)
    \/ \E n \in 1..MaxBatch, v \in HyperVals : NN_fit(n, v)
    \/ \E n \in 1..MaxBatch, v \in HyperVals : NN_update(n, v)
    \/ \E return_samples \in BOOLEAN : NN_predict(return_samples)
    \/ NN_get_fmin

SpecNN == InitNN /\ [][NextNN]_vars

\* the deterministic and heteroscedastic networks, Vanilla_NN with either
\* of two losses of the caller
NextNNCompile ==
    \/ \E fam \in {"NN", "Prob_NN", "Vanilla_NN"}, loss \in {"mse", "mae"} :
          NN_init_loss(fam, 1, loss)
    \/ NN_create_model(1, TRUE)
    \/ \E n \in 1..MaxBatch, v \in HyperVals : NN_fit(n, v)
    \/ \E n \in 1..MaxBatch, v \in HyperVals : NN_update(n, v)
    \/ NN_predict(FALSE)

SpecNNCompile == InitNN /\ [][NextNNCompile]_vars

(***************************************************************************)
(* is_probabilistic: a class attribute of every surrogate class, shadowed  *)
(* by an instance attribute where a method assigns one.                    *)
(***************************************************************************)
VanillaGaussianProcess == "VanillaGaussianProcess"

\* a table that calls every class probabilistic
class_is_probabilistic_always(fam) == TRUE

\* the class attribute is_probabilistic of each surrogate class
class_is_probabilistic(fam) ==
    IF fam = VanillaGaussianProcess THEN TRUE
    ELSE IF fam \in TFPFamilies THEN TRUE
    ELSE IF fam \in GPFamilies THEN TRUE
    ELSE IF fam = "NN" THEN FALSE
    ELSE IF fam = "Prob_NN" THEN TRUE
    ELSE IF fam = "Bayesian_NN" THEN TRUE
    ELSE IF fam = "Vanilla_NN" THEN FALSE
    ELSE \* Vanilla_BayesianNN
         TRUE

\* obj.is_probabilistic: the instance attribute if one was assigned, the
\* class attribute otherwise
is_probabilistic(fam, attr) ==
    IF attr # Unset THEN attr.v ELSE class_is_probabilistic(fam)

\* any one surrogate of any family, driven by any sequence of calls
InitFamilies == InitVGP \/ InitGP \/ InitNN

NextFamilies ==
    \/ (gp = NoGP /\ nn = NoNN /\ NextVGP)
    \/ (gp # NoGP /\ NextGP)
    \/ (nn # NoNN /\ NextNN)

SpecFamilies == InitFamilies /\ [][NextFamilies]_vars

(***************************************************************************)
(* The target functions of tests/integration_tests/test_functions.py.      *)
(* six_hump_camel is evaluated on integer points and its values are held   *)
(* in thirtieths (the function divides by 3.0 and multiplies by 2.1).      *)
(***************************************************************************)
GridMax == 1     \* coordinates of the sample points: -GridMax..GridMax
MaxPoints == 2   \* rows of the input matrix X
MaxDim == 2      \* dimension of the point ackley_nd is evaluated at

Grid == (0 - GridMax)..GridMax

\* X[:, j - 1] of a matrix held as a sequence of rows
ColumnOf(X, j) == [k \in DOMAIN X |-> X[k][j]]

\* np.power(x, p), elementwise
np_power(x, p) == [k \in DOMAIN x |-> x[k] ^ p]

\* the two-argument function with the roles of x and y exchanged
six_hump_camel_2D_2input_swapped(x, y) ==
    LET x2 == np_power(y, 2)
        x4 == np_power(y, 4)
        y2 == np_power(x, 2)
    IN  Array(1, [k \in DOMAIN x |->
                     (120 - 63 * x2[k] + 10 * x4[k]) * x2[k]
                     + 30 * (x[k] * y[k])
                     + (120 * y2[k] - 120) * y2[k]])

\* six_hump_camel_2D(X): the columns of X are taken apart first
six_hump_camel_2D(X) ==
    LET x == ColumnOf(X, 1)
        y == ColumnOf(X, 2)
        x2 == np_power(x, 2)
        x4 == np_power(x, 4)
        y2 == np_power(y, 2)
    IN  Array(1, [k \in DOMAIN x |->
                     (120 - 63 * x2[k] + 10 * x4[k]) * x2[k]
                     + 30 * (x[k] * y[k])
                     + (120 * y2[k] - 120) * y2[k]])

\* six_hump_camel_2D_2input(x, y)
six_hump_camel_2D_2input(x, y) ==
    LET x2 == np_power(x, 2)
        x4 == np_power(x, 4)
        y2 == np_power(y, 2)
    IN  Array(1, [k \in DOMAIN x |->
                     (120 - 63 * x2[k] + 10 * x4[k]) * x2[k]
                     + 30 * (x[k] * y[k])
                     + (120 * y2[k] - 120) * y2[k]])

(***************************************************************************)
(* ackley_nd works in binary floating point.  The model keeps the          *)
(* arithmetic and shortens the format: a value is a whole number of        *)
(* 1/Unit = 2^-FracBits, and every operation rounds its exact result to    *)
(* MantBits significant bits, ties to even.                                *)
(***************************************************************************)
FracBits == 6     \* binary digits behind the point
MantBits == 8     \* significant bits of a float

Unit == 2 ^ FracBits     \* the value 1.0

Abs(v) == IF v < 0 THEN 0 - v ELSE v

\* the spacing of the floats around magnitude m
RECURSIVE Ulp(_)
Ulp(m) == IF m < 2 ^ MantBits THEN 1 ELSE 2 * Ulp(m \div 2)

\* rounding of an exact result to the nearest float
fl(v) ==
    LET m == Abs(v)
        u == Ulp(m)
        q == m \div u
        r == m % u
        n == IF 2 * r > u \/ (2 * r = u /\ q % 2 = 1) THEN (q + 1) * u ELSE q * u
    IN  IF v < 0 THEN 0 - n ELSE n

\* np.exp(1) = 2.718282..., rounded to the format
E == fl((2718282 * Unit + 500000) \div 1000000)

FAdd(x, y) == fl(x + y)
FMul(x, y) == fl((x * y) \div Unit)

\* np.mean over one row
RECURSIVE FSum(_)
FSum(row) == IF row = <<>> THEN 0 ELSE FAdd(FSum(SubSeq(row, 1, Len(row) - 1)), row[Len(row)])
np_mean(row) == fl(FSum(row) \div Len(row))

\* np.sqrt, np.cos and np.exp at the arguments an evaluation at the origin
\* meets: sqrt(0) = 0, cos(0) = 1, exp(0) = 1, exp(1) = e
np_sqrt(v) == CASE v = 0 -> 0
np_cos(v) == CASE v = 0 -> Unit
np_exp(v) == CASE v = 0 -> Unit [] v = Unit -> E

\* ackley_nd(x_mx, a, b, c) for x_mx of one row (np.atleast_2d of a vector)
ackley_nd(x_mx, a, b, c) ==
    LET row == x_mx[1]
        sq == [j \in DOMAIN row |-> FMul(row[j], row[j])]
        cs == [j \in DOMAIN row |-> np_cos(FMul(c, row[j]))]
        t1 == FMul(0 - a, np_exp(FMul(0 - b, np_sqrt(np_mean(sq)))))
        t2 == 0 - np_exp(np_mean(cs))
    IN  Array(1, <<FAdd(FAdd(FAdd(t1, t2), a), np_exp(Unit))>>)

\* the constants a caller may pass: 0, 1, the default 20 and a large one;
\* around the default 0.2; 0 and around the default 2 * pi
AValues == {0, Unit, 20 * Unit, 2 ^ (MantBits + 2) * Unit}
BValues == {Unit \div 5, Unit}
CValues == {0, (6283 * Unit) \div 1000}

\* the largest error still counted as rounding noise: a quarter
Tolerance == Unit \div 4

\* the evaluations: the inputs are chosen at the start, each function is
\* applied once
CamelInputs ==
    UNION { [1..m -> Grid \X Grid] : m \in 1..MaxPoints }

InitFunctions ==
    /\ kernelObj = [o \in 0..NumInst |-> None]
    /\ vgp = [i \in Inst |-> NoVGP]
    /\ gp = NoGP
    /\ nn = NoNN
    /\ \/ \E X \in CamelInputs :
             fn = [kind |-> "six_hump_camel", X |-> X, out |-> Unset, out2 |-> Unset]
       \/ \E n \in 1..MaxDim, a \in AValues, b \in BValues, c \in CValues :
             fn = [kind |-> "ackley", x_mx |-> <<[j \in 1..n |-> 0]>>,
                   a |-> a, b |-> b, c |-> c, out |-> Unset]
    /\ last = NoCall

Eval_six_hump_camel_2D ==
    /\ fn.kind = "six_hump_camel"
    /\ fn.out = Unset
    /\ fn' = [fn EXCEPT !.out = six_hump_camel_2D(fn.X)]
    /\ last' = Call(0, "six_hump_camel_2D", Ok)
    /\ UNCHANGED <<kernelObj, vgp, gp, nn>>

Eval_six_hump_camel_2D_2input ==
    /\ fn.kind = "six_hump_camel"
    /\ fn.out2 = Unset
    /\ fn' = [fn EXCEPT !.out2 = six_hump_camel_2D_2input(ColumnOf(fn.X, 1),
                                                          ColumnOf(fn.X, 2))]
    /\ last' = Call(0, "six_hump_camel_2D_2input", Ok)
    /\ UNCHANGED <<kernelObj, vgp, gp, nn>>

Eval_ackley_nd ==
    /\ fn.kind = "ackley"
    /\ fn.out = Unset
    /\ fn' = [fn EXCEPT !.out = ackley_nd(fn.x_mx, fn.a, fn.b, fn.c)]
    /\ last' = Call(0, "ackley_nd", Ok)
    /\ UNCHANGED <<kernelObj, vgp, gp, nn>>

NextFunctions ==
    \/ Eval_six_hump_camel_2D
    \/ Eval_six_hump_camel_2D_2input
    \/ Eval_ackley_nd

SpecFunctions == InitFunctions /\ [][NextFunctions]_vars

(***************************************************************************)
(* normal_sp of harlow/surrogate_model.py, the distribution head of the    *)
(* probabilistic networks.  One row of params is <<params[k, 0],           *)
(* params[k, 1]>> in whole numbers; scales are held in thousandths.        *)
(***************************************************************************)

\* tf.math.softplus(x) = log(1 + exp(x)) at a whole x, in thousandths,
\* rounded to the nearest thousandth: 0 below -7, x above 7
softplus(x) ==
    LET log1p_exp == <<693, 313, 127, 49, 18, 7, 2, 1>>
        m == Abs(x)
    IN  (IF x > 0 THEN 1000 * x ELSE 0) + (IF m <= 7 THEN log1p_exp[m + 1] ELSE 0)

\* a distribution head without the constant 1e-3
normal_sp_without_floor(params) ==
    [kind |-> "Normal",
     loc |-> [k \in DOMAIN params |-> <<1000 * params[k][1]>>],
     scale |-> [k \in DOMAIN params |-> <<softplus((5 * params[k][2]) \div 100)>>]]

\* normal_sp(params): loc = params[:, 0:1] and
\* scale = 1e-3 + softplus(0.05 * params[:, 1:2]), both of shape (n, 1)
normal_sp(params) ==
    [kind |-> "Normal",
     loc |-> [k \in DOMAIN params |-> <<1000 * params[k][1]>>],
     scale |-> [k \in DOMAIN params |-> <<1 + softplus((5 * params[k][2]) \div 100)>>]]

\* the second column of params: 20 * x for x around 0, at the ends of the
\* table of softplus, and far out on both sides
ScaleParams == { 20 * x : x \in {0 - 1000, 0 - 8, 0 - 1, 0, 1, 8, 1000} }

InitNormalSp ==
    /\ kernelObj = [o \in 0..NumInst |-> None]
    /\ vgp = [i \in Inst |-> NoVGP]
    /\ gp = NoGP
    /\ nn = NoNN
    /\ \E m \in 1..MaxPoints : \E params \in [1..m -> Grid \X ScaleParams] :
          fn = [kind |-> "normal_sp", params |-> params, out |-> Unset]
    /\ last = NoCall

Eval_normal_sp ==
    /\ fn.kind = "normal_sp"
    /\ fn.out = Unset
    /\ fn' = [fn EXCEPT !.out = normal_sp(fn.params)]
    /\ last' = Call(0, "normal_sp", Ok)
    /\ UNCHANGED <<kernelObj, vgp, gp, nn>>

SpecNormalSp == InitNormalSp /\ [][Eval_normal_sp]_vars

(***************************************************************************)
(* Claims about the gpytorch-backed surrogates.                            *)
(***************************************************************************)

\* a call of the gpytorch-backed surrogate got as far as create_model
ReachedCreateModel ==
    /\ last'.op \in {"__init__", "create_model", "fit", "update"}
    /\ last'.err # RuntimeError
    /\ ~(gp'.fam = ModelList /\ (gp'.model_names = None \/ gp'.list_params = None))

\* C4: fit() with both arguments omitted warns, leaves the stored train_X /
\* train_y unchanged, rebuilds the model and trains on the stored data; in
\* every other case (at least one argument supplied) the stored data is
\* replaced by the supplied arguments.
C4_FitReplacesUnlessBothOmitted ==
    [][last'.op = "fit" =>
          \A X \in FitXArgs, y \in FitYArgs(gp.fam),
             ls \in Losses(gp.training_max_iter, LossVals) :
                GP_fit(X, y, ls) =>
                    IF X = None /\ y = None
                    THEN /\ WarnFitNoArgs \in gp'.warned
                         /\ gp'.train_X = gp.train_X
                         /\ gp'.train_y = gp.train_y
                         /\ last'.err = Ok =>
                                /\ gp'.model.id # gp.model.id
                                /\ gp'.vec_loss # Unset
                    ELSE /\ X # None =>
                                gp'.train_X = IF gp.fam = GPR THEN X ELSE AsTensor2D(X)
                         /\ y # None =>
                                gp'.train_y = IF gp.fam = GPR THEN y ELSE AsTensor2D(y)]_vars

\* C5: construction, fit and update whose resulting train_y row count
\* differs from the train_X row count fail with a ValueError raised by
\* create_model, before a new model or likelihood is created and before
\* any training step runs.
C5_RowMismatchRaisesBeforeBuild ==
    [][(/\ ReachedCreateModel
        /\ last'.op # "create_model"
        /\ Shape0(gp'.train_y) # Shape0(gp'.train_X)) =>
            /\ last'.err = ValueError
            /\ gp'.optimizer = None
            /\ gp'.model = gp.model
            /\ gp'.likelihood = gp.likelihood
            /\ gp'.vec_loss = gp.vec_loss
            /\ gp'.noise_std = gp.noise_std]_vars

\* C5 witness: an update of a fitted instance failed on the row counts
C5_Witness ==
    /\ gp.phase = "live"
    /\ last.op = "update"
    /\ last.err = ValueError
    /\ Shape0(gp.train_y) # Shape0(gp.train_X)
    /\ gp.model # None

\* C6: for ModelListGaussianProcess create_model raises a ValueError whenever
\* train_y.shape[1] != len(model_names), reached from the constructor, from
\* fit or from update; the multi-task families raise it when
\* train_y.shape[1] != num_tasks.
C6_ColumnMismatchRaises ==
    [][(/\ ReachedCreateModel
        /\ gp'.fam # GPR
        /\ gp'.train_y.nd = 2
        /\ Shape1(gp'.train_y) # NumOutputs(gp')) =>
            /\ last'.err = ValueError
            /\ gp'.model = gp.model
            /\ gp'.likelihood = gp.likelihood]_vars

\* C6 witness: an update of a ModelListGaussianProcess whose rows agree
\* failed on the column count
C6_Witness ==
    /\ gp.phase = "live"
    /\ gp.fam = ModelList
    /\ last.op = "update"
    /\ last.err = ValueError
    /\ Shape0(gp.train_y) = Shape0(gp.train_X)
    /\ Shape1(gp.train_y) # NumOutputs(gp)

\* C7: constructing a ModelListGaussianProcess with model_names None or
\* list_params None raises ValueError and model stays None; with optimizer
\* None it only warns and construction continues to a created model.
C7_ModelListConfigErrors ==
    [][gp.phase = "new" =>
          \A n \in 1..MaxBatch, ys \in YShapes(ModelList), k \in 1..MaxTasks :
          \A names \in {None, NameList(k)}, params \in {None, ParamList(k)},
             optimizer \in {None, [kind |-> "caller", steps |-> 0]},
             maxIter \in 1..MaxIter :
                GP_init(ModelList, n, ys, 0, names, params, optimizer, maxIter, None) =>
                    /\ (names = None \/ params = None) =>
                            /\ last'.err = ValueError
                            /\ gp'.model = None
                    /\ (names # None /\ params # None /\ optimizer = None) =>
                            /\ gp'.warned = {WarnNoOptimizer}
                            /\ (ys = <<n, k, 2>>) =>
                                    /\ last'.err = Ok
                                    /\ gp'.phase = "live"
                                    /\ gp'.model # None]_vars

\* C7 witness: a ModelListGaussianProcess constructed without an optimizer
\* has warned and holds a model
C7_Witness ==
    /\ last.op = "__init__"
    /\ last.err = Ok
    /\ gp.fam = ModelList
    /\ gp.warned = {WarnNoOptimizer}
    /\ gp.model # None

\* C10: after update(new_X, new_y) returns, the stored data are the stored
\* rows followed by the new rows, model and likelihood are new objects with
\* initial hyperparameters, the optimizer is a new Adam over the new model's
\* parameters, and vec_loss holds only the steps of this re-fit.
C10_UpdateRebuildsEverything ==
    [][(last'.op = "update" /\ last'.err = Ok) =>
          \A n \in 1..MaxBatch, ys \in YShapes(gp.fam),
             ls \in Losses(gp.training_max_iter, LossVals) :
                GP_update(n, ys, ls) =>
                    /\ gp'.train_X.rows =
                           gp.train_X.rows \o XBatch(2, Shape0(gp.train_X) + 1, n).rows
                    /\ gp'.train_y.rows =
                           gp.train_y.rows
                           \o YBatch(2, Shape0(gp.train_y) + 1, ys[1], ys[2], ys[3]).rows
                    /\ gp'.model.id # gp.model.id
                    /\ gp'.likelihood.id # gp.likelihood.id
                    /\ gp'.model.init = "default"
                    /\ gp'.likelihood.init = "default"
                    /\ gp'.optimizer.kind = "Adam"
                    /\ gp'.optimizer.params = gp'.model.id
                    /\ gp'.optimizer.steps = Len(gp'.vec_loss.items)
                    /\ gp'.model.steps = Len(gp'.vec_loss.items)
                    /\ Len(gp'.vec_loss.items) <= gp.training_max_iter
                    /\ gp'.vec_loss.items = SubSeq(ls, 1, Len(gp'.vec_loss.items))]_vars

\* C10 witness: an update has returned and the stored data has grown
C10_Witness ==
    /\ gp.phase = "live"
    /\ last.op = "update"
    /\ last.err = Ok
    /\ Shape0(gp.train_X) > 1
    /\ gp.vec_loss # Unset

(***************************************************************************)
(* Claims about the Keras / TFP surrogates.                                *)
(***************************************************************************)

\* C8: the protocol construct -> fit(X, y) -> predict(X) ->
\* update(new_X, new_y) -> predict(X), with consistent data and no
\* create_model call by the caller, completes without error for every
\* family: nn.proto > 0 exactly while the calls made so far are a prefix of
\* the protocol.
C8_ProtocolCompletes ==
    (nn.phase = "live" /\ nn.proto > 0) => last.err = Ok

\* C9: for NN, Prob_NN, Bayesian_NN, Vanilla_NN and Vanilla_BayesianNN,
\* predict called while model is None returns None without raising and
\* without changing any attribute of the instance.
C9_PredictWithoutModel ==
    [][(/\ nn.phase = "live"
        /\ nn.fam \in NNFamilies
        /\ nn.model = None
        /\ last'.op = "predict") =>
            /\ last'.err = Ok
            /\ nn'.ret = None
            /\ NNAttrs(nn') = NNAttrs(nn)]_vars

\* C11: GaussianProcessTFP.update concatenates the new observations onto
\* the stored ones and re-optimizes the hyperparameters starting from the
\* values the previous optimization reached, not from their initial values.
C11_UpdateStartsFromPreviousOptimum ==
    [][(/\ nn.phase = "live"
        /\ nn.fam \in TFPFamilies
        /\ last'.op = "update"
        /\ last'.err = Ok) =>
            /\ Len(nn'.X.rows) > Len(nn.X.rows)
            /\ SubSeq(nn'.X.rows, 1, Len(nn.X.rows)) = nn.X.rows
            /\ nn'.variables.initial_value = nn.variables.value]_vars

\* C9 witness: predict has returned None on an instance without a model
C9_Witness ==
    /\ nn.phase = "live"
    /\ nn.fam \in NNFamilies
    /\ nn.model = None
    /\ last.op = "predict"
    /\ last.err = Ok
    /\ nn.ret = None

(***************************************************************************)
(* Claims about the classical GP.                                          *)
(***************************************************************************)
\* the number of WhiteKernel terms among the summands of a kernel
RECURSIVE AdditiveWhiteCount(_)
AdditiveWhiteCount(k) ==
    IF k.kind = "WhiteKernel" THEN 1
    ELSE IF k.kind = "Sum" THEN AdditiveWhiteCount(k.k1) + AdditiveWhiteCount(k.k2)
    ELSE 0

\* C1: fit on an instance raises ValueError exactly when the kernel given to
\* that instance has zero or more than one additive WhiteKernel component,
\* and raises nothing when it has exactly one.
C1_FitRaisesIffNotOneWhite ==
    \A i \in Inst :
        (last.who = i /\ last.op = "fit") =>
            LET c == AdditiveWhiteCount(kernelObj[vgp[i].kernel])
            IN  /\ (c # 1) <=> (last.err = ValueError)
                /\ (c = 1) => (last.err = Ok)

\* C2: after fit followed by any sequence of updates, the stored X and y hold
\* exactly the rows of all the batches handed over, in call order, and a
\* predict issued then ends without error.
C2_RowsAreAllBatches ==
    \A i \in Inst :
        vgp[i].fed # Unset =>
            /\ vgp[i].X.rows = vgp[i].fed.rows
            /\ vgp[i].y.rows = vgp[i].fed.rows
            /\ (last.who = i /\ last.op = "predict") => last.err = Ok

\* what instance j's own fit, update, predict and get_noise read
Readable(j) ==
    [attrs |-> [vgp[j] EXCEPT !.fed = Unset], kernel |-> kernelObj[vgp[j].kernel]]

\* C3: no call made on one instance changes anything another instance reads.
C3_NoSharedState ==
    [][\A j \in Inst :
          (vgp[j].constructed /\ last'.who # j) => Readable(j)' = Readable(j)]_vars

\* C12: update of the classical GP concatenates the new data onto the
\* stored dataset (new_y flattened when it has more dimensions than the
\* stored y), then copies the hyperparameters of the previously fitted
\* kernel onto the instance's kernel template, then builds a new regressor
\* on that template, then fits it on the concatenated dataset, so that the
\* fit starts from the previously learned hyperparameters; a step that
\* raises leaves the later steps undone.
C12_UpdateStepsInOrder ==
    [][\A n \in 1..MaxBatch, nd \in 1..2, v \in HyperVals :
        (VGP_update(1, n, nd, v) /\ vgp[1].X # Unset) =>
            LET s == vgp[1]
                t == vgp'[1]
            IN  IF nd < s.y.nd
                THEN \* the concatenation of y raises: nothing else happened
                     /\ last'.err = ValueError
                     /\ kernelObj' = kernelObj
                     /\ t.model = s.model /\ t.X = s.X /\ t.y = s.y
                ELSE IF s.model.kernel_ = Unset
                THEN \* no fitted kernel to copy from: nothing else happened
                     /\ last'.err = AttributeError
                     /\ kernelObj' = kernelObj
                     /\ t.model = s.model /\ t.X = s.X /\ t.y = s.y
                ELSE /\ kernelObj'[s.kernel] = s.model.kernel_
                     /\ \A o \in DOMAIN kernelObj :
                            o # s.kernel => kernelObj'[o] = kernelObj[o]
                     /\ t.model.kernel = s.kernel
                     /\ t.model.kernel_ = Optimized(s.model.kernel_, v)
                     /\ t.model.X_train_ = t.X
                     /\ Len(t.X.rows) = Len(s.X.rows) + n
                     /\ SubSeq(t.X.rows, 1, Len(s.X.rows)) = s.X.rows
                     /\ t.y.nd = s.y.nd
                     /\ Len(t.y.rows) = Len(s.y.rows) + n
                     /\ SubSeq(t.y.rows, 1, Len(s.y.rows)) = s.y.rows]_vars

\* C12 witness: an update has returned after a fit that had learned
\* hyperparameters different from the template's; the template now carries
\* them and the new regressor has been fitted on more rows than the first fit
C12_Witness ==
    /\ last.op = "update" /\ last.err = Ok
    /\ vgp[1].kernel = 1
    /\ kernelObj[1] = Optimized(DefaultKernel, 4)
    /\ vgp[1].model.kernel_ = Optimized(kernelObj[1], 1)
    /\ Len(vgp[1].model.X_train_.rows) = 2

\* C13: when fit(X, y) of the classical GP returns, noise_std is the square
\* root of the white-noise level of the kernel fitted by that fit (kernel_),
\* not of the noise level the template had before the fit.
C13_NoiseStdIsLearnedNoise ==
    (last.op = "fit" /\ last.err = Ok) =>
        LET s == vgp[last.who]
        IN  \E a \in {"k1", "k2"} :
                /\ s.model.kernel_[a].kind = "WhiteKernel"
                /\ s.noise_std = Float(Sqrt(s.model.kernel_[a].noise_level))

\* C14: is_probabilistic is fixed per family: in every state reached by any
\* sequence of create_model, fit, predict and update calls it is True for
\* every GP family and for the heteroscedastic and Bayesian NN families, and
\* False for the deterministic NN families (NN, Vanilla_NN).
C14_IsProbabilisticFixedPerFamily ==
    /\ \A i \in Inst :
           vgp[i].constructed => is_probabilistic(VanillaGaussianProcess, Unset) = TRUE
    /\ (gp # NoGP /\ gp.phase # "new") => is_probabilistic(gp.fam, Unset) = TRUE
    /\ (nn # NoNN /\ nn.phase = "live") =>
           is_probabilistic(nn.fam, nn.is_probabilistic)
               = (nn.fam \notin {"NN", "Vanilla_NN"})

\* C14 witness: a deterministic NN that has been fitted and updated
C14_Witness ==
    /\ nn # NoNN
    /\ nn.phase = "live"
    /\ nn.fam = "NN"
    /\ last.op = "update" /\ last.err = Ok
    /\ nn.model.fits = 2
    /\ ~is_probabilistic(nn.fam, nn.is_probabilistic)

\* C15: update of the neural-network surrogates trains the existing model,
\* from its current weights, on the new data only (never on old and new data
\* together) and leaves a stored training dataset unchanged, whereas update
\* of every GP family (classical, functional and gpytorch-backed) retrains
\* on the stored data followed by the new data.
C15_UpdateTrainingData ==
    [][(last'.op = "update" /\ last'.err = Ok) =>
        /\ (nn # NoNN /\ nn.fam \in NNFamilies) =>
               /\ nn'.X = nn.X
               /\ nn'.model.fits = nn.model.fits + 1
               /\ \A k \in 1..Len(nn'.model.trained_on.rows) :
                      nn'.model.trained_on.rows[k] = Len(NN_seen(nn)) + k
               /\ Len(nn'.model.trained_on.rows) \in 1..MaxBatch
        /\ (nn # NoNN /\ nn.fam \in TFPFamilies) =>
               /\ Len(nn'.X.rows) > Len(nn.X.rows)
               /\ SubSeq(nn'.X.rows, 1, Len(nn.X.rows)) = nn.X.rows
               /\ nn'.variables.kind = "TransformedVariable"
        /\ gp # NoGP =>
               /\ Shape0(gp'.train_X) > Shape0(gp.train_X)
               /\ SubSeq(gp'.train_X.rows, 1, Shape0(gp.train_X)) = gp.train_X.rows
               /\ gp'.model.id # gp.model.id
               /\ gp'.model.steps = Len(gp'.vec_loss.items)
        /\ (gp = NoGP /\ nn = NoNN) =>
               LET s == vgp[last'.who]
                   t == vgp'[last'.who]
               IN  /\ Len(t.X.rows) > Len(s.X.rows)
                   /\ SubSeq(t.X.rows, 1, Len(s.X.rows)) = s.X.rows
                   /\ t.model.X_train_ = t.X]_vars

\* C15 witness: a Bayesian NN that stores its training data has been
\* updated: the model was trained on the new row alone, the stored X is
\* still the X of fit
C15_Witness ==
    /\ nn # NoNN
    /\ nn.fam = "Bayesian_NN"
    /\ last.op = "update" /\ last.err = Ok
    /\ nn.X # Unset
    /\ nn.X.rows = <<1, 2>>
    /\ nn.model.trained_on.rows = <<3>>
    /\ nn.model.fits = 2

\* C16: for the legacy NN, Prob_NN and Bayesian_NN, get_fmin() called after
\* fit(X, y) has returned does not fail for lack of a stored X and returns
\* the minimum of the model's predictions over the X of that fit.
C16_GetFminAfterFit ==
    [][(/\ nn # NoNN
        /\ nn.fam \in LegacyNNFamilies
        /\ last.op = "fit" /\ last.err = Ok
        /\ last'.op = "get_fmin") =>
            /\ last'.err = Ok
            /\ nn'.ret = [kind |-> "min of predictions",
                          over |-> nn.model.trained_on.rows]]_vars

\* C17: for Prob_NN and Bayesian_NN, predict(X, iterations,
\* return_samples=True) does exactly what predict with return_samples=False
\* does: it returns the same 2-tuple (mean, stdv), the sample matrix is not
\* returned and not retained on the instance.
C17_ReturnSamplesIgnored ==
    [][(/\ nn # NoNN
        /\ nn.fam \in {"Prob_NN", "Bayesian_NN"}
        /\ NN_predict(TRUE)) =>
            /\ NN_predict(FALSE)
            /\ nn'.ret = [kind |-> "mean, stdv"]
            /\ NNAttrs(nn') = NNAttrs(nn)]_vars

\* C17 witness: a fitted Prob_NN has answered a predict with the 2-tuple
C17_Witness ==
    /\ nn # NoNN
    /\ nn.fam = "Prob_NN"
    /\ last.op = "predict" /\ last.err = Ok
    /\ nn.model # None
    /\ nn.model.fits = 1
    /\ nn.ret = [kind |-> "mean, stdv"]
    /\ nn.preds = Unset

C19_CamelCallShapesAgree ==
    (fn.kind = "six_hump_camel" /\ fn.out # Unset /\ fn.out2 # Unset) =>
        fn.out = fn.out2

\* C19 witness: both functions have been evaluated on two points whose
\* values differ and where x and y are not interchangeable
C19_Witness ==
    /\ fn.kind = "six_hump_camel"
    /\ fn.out # Unset /\ fn.out2 # Unset
    /\ Len(fn.X) = 2
    /\ fn.X[1] = <<1, 0>>
    /\ fn.out.rows[1] # fn.out.rows[2]

\* C20: ackley_nd at the zero vector of any dimension n >= 1, with any
\* constants a, b, c, returns 0 within floating-point tolerance.
C20_AckleyZeroAtOrigin ==
    (fn.kind = "ackley" /\ fn.out # Unset) =>
        \A k \in DOMAIN fn.out.rows : Abs(fn.out.rows[k]) <= Tolerance

\* C21: normal_sp(params) returns a Normal distribution whose scale is at
\* least 1e-3 for every finite 2-column input: scale is 1e-3 plus the
\* softplus of 0.05 * params[:, 1], and loc is params[:, 0].
C21_ScaleAtLeastFloor ==
    (fn.kind = "normal_sp" /\ fn.out # Unset) =>
        /\ fn.out.kind = "Normal"
        /\ DOMAIN fn.out.scale = DOMAIN fn.params
        /\ DOMAIN fn.out.loc = DOMAIN fn.params
        /\ \A k \in DOMAIN fn.params :
               /\ fn.out.scale[k][1] >= 1
               /\ fn.out.scale[k][1] = 1 + softplus(fn.params[k][2] \div 20)
               /\ fn.out.loc[k][1] = 1000 * fn.params[k][1]

\* C21 witness: a head has been built on a row whose softplus is rounded
\* to 0 and on a row whose softplus is large
C21_Witness ==
    /\ fn.kind = "normal_sp"
    /\ fn.out # Unset
    /\ Len(fn.params) = 2
    /\ fn.params[1][2] = 0 - 20000
    /\ fn.out.scale[1] = <<1>>
    /\ fn.out.scale[2][1] > 1000

(***************************************************************************)
(* Claims about the training loop of the gpytorch-backed surrogates.       *)
(***************************************************************************)

\* C22: for every gpytorch-backed GP surrogate and every training_max_iter
\* >= 1, a fit (also the one inside update) that returns has run at least one
\* and at most training_max_iter optimizer steps, exactly training_max_iter
\* when min_loss_rate is None, and vec_loss holds the losses of exactly the
\* executed steps of this fit, in step order, none of an earlier fit.
C22_FitStepsAndLossHistory ==
    [][(gp # NoGP /\ last'.op \in {"fit", "update"} /\ last'.err = Ok) =>
        \A ls \in Losses(gp.training_max_iter, LossVals) :
            (TrainFit(ls) \/ TrainUpdate(ls)) =>
                LET k == Len(gp'.vec_loss.items)
                IN  /\ k \in 1..gp.training_max_iter
                    /\ gp.min_loss_rate = None => k = gp.training_max_iter
                    /\ gp'.model.steps = k
                    /\ gp'.optimizer.steps = k
                    /\ gp'.vec_loss.items = SubSeq(ls, 1, k)]_vars

\* C22 witness: a second training has returned on an instance without
\* min_loss_rate; vec_loss holds the full count of this training only
C22_Witness ==
    /\ gp # NoGP
    /\ gp.phase = "live"
    /\ last.op = "update" /\ last.err = Ok
    /\ gp.min_loss_rate = None
    /\ gp.training_max_iter = MaxIter + 1
    /\ Len(gp.vec_loss.items) = MaxIter + 1

\* C23: for every gpytorch-backed GP surrogate whose min_loss_rate is any
\* r >= 0 (not None), a fit runs up to and including the first step i with
\* (loss[i-1] - loss[i]) - r * loss[i] < 0, the loss before the first step
\* being +infinity, and all training_max_iter steps when there is no such
\* step; noise_std is the noise after the last executed step.
C23_StopsAtFirstCriterionStep ==
    [][(gp # NoGP /\ last'.op = "fit" /\ last'.err = Ok /\ gp.min_loss_rate # None) =>
        \A ls \in Losses(gp.training_max_iter, LossVals) :
            TrainFit(ls) =>
                LET r == gp.min_loss_rate.v
                    stops == {i \in 2..gp.training_max_iter :
                                 (ls[i - 1] - ls[i]) - r * ls[i] < 0}
                    k == gp'.model.steps
                IN  /\ IF stops = {} THEN k = gp.training_max_iter
                       ELSE \A i \in stops : k <= i /\ k \in stops
                    /\ gp'.noise_std = GP_get_noise_val(gp'.likelihood)]_vars

(***************************************************************************)
(* Claims about the Keras surrogates' training.                            *)
(***************************************************************************)

\* C24: for the Bayesian NN surrogates, the KL-divergence terms a fit(X, y)
\* trains with are divided by the number of rows of the X passed to that
\* fit, also when that differs from the row count at model creation.
C24_KLDivisorIsFitRowCount ==
    (/\ nn # NoNN
     /\ nn.fam \in BayesianFamilies
     /\ last.op = "fit" /\ last.err = Ok)
        => nn.model.rows = Float(Len(nn.X.rows))

(***************************************************************************)
(* Claims about the model list of ModelListGaussianProcess.                *)
(***************************************************************************)

\* C25: for ModelListGaussianProcess with N = len(model_names) >= 1, when
\* create_model returns (in the constructor, called directly, or inside fit
\* or update) the model list holds exactly N components and the likelihood
\* list exactly N likelihoods, and component i is built on the columns
\* list_params[i] of train_X and column i of train_y with likelihood i.
C25_ModelListComplete ==
    (/\ gp # NoGP
     /\ gp.fam = ModelList
     /\ last.op \in {"__init__", "create_model", "fit", "update"}
     /\ last.err = Ok)
        => LET N == Len(gp.model_names.items)
           IN  /\ N >= 1
               /\ Len(gp.model.models) = N
               /\ gp.likelihood.n = N
               /\ \A i \in 1..N :
                      gp.model.models[i] =
                          [inputs |-> gp.list_params.items[i], targets |-> <<i>>,
                           likelihood |-> i]

\* C25 witness: create_model has returned for MaxTasks model names, the
\* first of them built on two columns of train_X
C25_Witness ==
    /\ gp # NoGP
    /\ gp.fam = ModelList
    /\ last.op = "create_model" /\ last.err = Ok
    /\ Len(gp.model_names.items) = MaxTasks
    /\ gp.list_params.items[1] = <<1, 2>>
    /\ Len(gp.model.models) = MaxTasks

(***************************************************************************)
(* Claims about the modes, the failed dimension check and the optimizer    *)
(* of the gpytorch-backed surrogates.                                      *)
(***************************************************************************)

\* C26: for every gpytorch-backed GP surrogate and any interleaving of fit,
\* predict, sample_posterior and update: the training steps of a fit (also
\* of the fit inside update) run with model and likelihood in train mode,
\* also after an earlier predict, and the posterior of a predict is
\* computed with both in eval mode.  No call changes the modes after its
\* steps or its posterior, so they are the modes the call returns with.
C26_TrainAndEvalModes ==
    gp # NoGP =>
        /\ (last.op \in {"fit", "update"} /\ last.err = Ok)
              => (gp.model.mode = "train" /\ gp.likelihood.mode = "train")
        /\ last.op = "predict"
              => (gp.model.mode = "eval" /\ gp.likelihood.mode = "eval")

\* C26 witness: a fit has trained, in train mode, a surrogate that a predict
\* had put in eval mode before
C26_Witness ==
    /\ gp # NoGP
    /\ last.op = "fit" /\ last.err = Ok
    /\ gp.prediction # Unset /\ gp.prediction # None
    /\ gp.model.steps > 0
    /\ gp.model.mode = "train" /\ gp.likelihood.mode = "train"

\* the stored dataset fails the dimension check of create_model
DatasetRejected(s) ==
    IF Shape0(s.train_y) # Shape0(s.train_X) THEN TRUE
    ELSE s.fam # GPR /\ s.train_y.nd = 2 /\ Shape1(s.train_y) # NumOutputs(s)

\* C27: for every gpytorch-backed GP surrogate, when fit(X, y) or
\* update(new_X, new_y) fails the dimension check (ValueError), the stored
\* train_X / train_y are the rejected data, the optimizer is None, model
\* and likelihood are the objects from before the call, and a fit()
\* without arguments fails with the same error and changes nothing.
C27_FailedDimensionCheckState ==
    [][(gp # NoGP /\ last'.op \in {"fit", "update"} /\ last'.err = ValueError) =>
        /\ gp'.optimizer = None
        /\ gp'.model = gp.model
        /\ gp'.likelihood = gp.likelihood
        /\ DatasetRejected(gp')
        /\ \A ls \in {<<1>>} :
              /\ last'.op = "fit" =>
                    \* the rejected data came with this call, or the call had
                    \* no arguments and met a dataset rejected before
                    \/ gp'.train_X # gp.train_X
                    \/ gp'.train_y # gp.train_y
                    \/ DatasetRejected(gp)
              /\ last'.op = "update" =>
                    \* the stored rows followed by the new rows
                    /\ Shape0(gp'.train_X) > Shape0(gp.train_X)
                    /\ Shape0(gp'.train_y) > Shape0(gp.train_y)
                    /\ SubSeq(gp'.train_X.rows, 1, Shape0(gp.train_X)) = gp.train_X.rows
                    /\ SubSeq(gp'.train_y.rows, 1, Shape0(gp.train_y)) = gp.train_y.rows
              /\ GP_fit_res(gp', None, None, ls).err = ValueError
              /\ GP_fit_res(gp', None, None, ls).inst =
                    [gp' EXCEPT !.warned = @ \cup {WarnFitNoArgs}]]_vars

\* C27 witness: a fit of a trained surrogate has failed the dimension
\* check; its optimizer is gone, its model is the trained one and the
\* stored rows of X and y differ
C27_Witness ==
    /\ gp # NoGP
    /\ gp.phase = "live"
    /\ last.op = "fit" /\ last.err = ValueError
    /\ gp.optimizer = None
    /\ gp.model # None /\ gp.model.steps > 0
    /\ Shape0(gp.train_X) # Shape0(gp.train_y)

\* C28: for every gpytorch-backed GP surrogate, an optimizer supplied at
\* construction is never used in a training step: in every state of a
\* constructed instance the optimizer is None or the Adam optimizer that
\* the last fit (also inside update) created over the parameters of the
\* model of that fit and stepped exactly as often as that model, and it is
\* None as long as no fit has trained.
C28_CallerOptimizerNeverUsed ==
    (gp # NoGP /\ gp.phase = "live") =>
        /\ \/ gp.optimizer = None
           \/ /\ gp.optimizer.kind = "Adam"
              /\ gp.optimizer.params = gp.model.id
              /\ gp.optimizer.steps = gp.model.steps
        /\ gp.vec_loss = Unset => gp.optimizer = None
        /\ (last.op \in {"fit", "update"} /\ last.err = Ok)
              => (gp.optimizer # None /\ gp.optimizer.steps = Len(gp.vec_loss.items))

\* C28 witness: the constructor was given an optimizer (it did not warn
\* about a missing one) and has returned with the optimizer None
C28_Witness ==
    /\ gp # NoGP
    /\ gp.phase = "live"
    /\ last.op = "__init__" /\ last.err = Ok
    /\ WarnNoOptimizer \notin gp.warned
    /\ gp.optimizer = None

C30_UpdateWithoutModelCreatesIt ==
    [][(/\ nn # NoNN
        /\ nn.fam \in BayesianFamilies
        /\ last'.op = "update") =>
          IF nn.model = None
          THEN /\ last'.err = Ok
               /\ nn'.model # None
               /\ nn'.model.fits = 0
          ELSE last'.err = Ok =>
               /\ nn'.model.lr = learning_rate_update
               /\ nn'.model.fits = nn.model.fits + 1]_vars

====
